---- MODULE Spec2Model ----
(***************************************************************************)
(* Voting lifecycle of the association bot: the votings and votes tables,  *)
(* the callback handlers that read and write them (handlers/voting.py,     *)
(* handlers/admin.py), the scheduler job that closes expired votings       *)
(* (services/reminder_service.py) and the CRUD layer they share            *)
(* (database/crud.py).  A handler is a task that runs from one await to    *)
(* the next; every database call is one step of the task.  Time is counted *)
(* in ticks, TicksPerHour of them to the hour.                             *)
(***************************************************************************)
EXTENDS Integers, Sequences, FiniteSets, TLC

\* ---- bounds of the model ------------------------------------------------
MaxQ == 2          \* rows the votings table can hold
NumMembers == 2    \* rows of the users table (user 1 is the admin)
MaxDays == 1       \* days the clock can advance
TicksPerHour == 2  \* resolution of the clock
MaxProcs == 2      \* tasks (handlers, job) that can be in flight together
MaxOps == 4        \* updates and job runs the application processes
MaxConcOps == 3    \* the same, when the tasks interleave
MaxEvents == 2     \* rows the events table can hold
MaxNotices == 2    \* rows the notifications table can hold
MaxRuns == 3       \* runs of the event-reminder and the notification job

\* ---- program constants --------------------------------------------------
VOTE_DURATION_DAYS == 7     \* config.VOTE_DURATION_DAYS default
SENTINEL_DAYS == 365        \* "closed manually by admin" deadline
CUSTOM_MIN_DAYS == 1        \* custom duration, lower limit
CUSTOM_MAX_DAYS == 90       \* custom duration, upper limit
REMINDER_MIN_HOURS == 23    \* voting reminder window, lower limit (exclusive)
REMINDER_MAX_HOURS == 25    \* voting reminder window, upper limit (exclusive)
REMINDER_HOURS_BEFORE == 24 \* config.REMINDER_HOURS_BEFORE default

\* timedelta(hours=h) and timedelta(days=d), in ticks.
Ticks(hours) == hours * TicksPerHour
Hours(days) == Ticks(days * 24)

\* The moments at which the clock is read: the start and a tick after the end
\* of the first day; or, more closely, also a tick before the end of the first
\* day and the end of every later day.
CoarseInstants == {0, Hours(1) + 1}
FineInstants ==
  {0, Hours(1) - 1, Hours(1) + 1} \cup {Hours(d) : d \in 2..MaxDays}

QIds == 1..MaxQ
Members == 1..NumMembers
TgIds == 0..NumMembers          \* telegram id 0 has no row in users
Options == {0, 1}               \* options = ["ЗА", "ПРОТИВ"]
OptionInputs == {0, 1, 2}       \* option indexes carried by callback data
CustomDayInputs == {0, 1, 2, 91} \* numbers typed into the custom duration prompt
Job == 0                        \* the task of the repeating scheduler job
Handlers == 1..MaxProcs
Procs == {Job} \cup Handlers

VARIABLES
  now,         \* datetime.utcnow(), in ticks
  started,     \* the local wall-clock time <<hour, minute>> when now is 0
  instants,    \* the moments at which the clock is read
  events,      \* events table: id -> row (status "NONE": no such row)
  notifications, \* notifications table: id -> row (status "NONE": no such row)
  service,     \* the task of the event-reminder and the notification job
  calls,       \* the calls these jobs have made: <<function, row id, chat id, run>>
  users,       \* users table: telegram id -> row
  votings,     \* votings table: id -> row (status "NONE": no such row)
  votes,       \* votes table as a multiset: <<user_id, voting_id, option_index>> -> rows
  procs,       \* the tasks: position (pc), arguments and session objects of each
  sequential,  \* TRUE: tasks run one at a time; FALSE: they interleave at awaits
  ops,         \* updates and job runs started so far
  dropped,     \* notices the job did not send because of the quiet hours
  pure,        \* the call of a function of utils/ under examination
  last_run,    \* when the repeating job last started each of its parts
  delivered    \* the times at which each notice of results or reminder reached a user

vars ==
  <<now, started, instants, events, notifications, service, calls,
    users, votings, votes, procs, sequential, ops, dropped, pure, last_run, delivered>>

\* ---- rows ----------------------------------------------------------------
NoRow ==
  [status |-> "NONE", creator |-> 0, starts_at |-> 0, ends_at |-> 0,
   total_votes |-> 0, results |-> <<>>]

\* Voting(**kwargs): total_votes defaults to 0, results to NULL (<<>>).
NewVoting(st, creator, starts, ends) ==
  [status |-> st, creator |-> creator, starts_at |-> starts, ends_at |-> ends,
   total_votes |-> 0, results |-> <<>>]

UserRow(u) ==
  [status |-> "VERIFIED", is_admin |-> (u = 1), notifications_enabled |-> TRUE]

BallotKeys == Members \X QIds \X OptionInputs

RECURSIVE SumOver(_, _)
SumOver(S, f) ==
  IF S = {} THEN 0
  ELSE LET x == CHOOSE y \in S : TRUE IN f[x] + SumOver(S \ {x}, f)

Max(S) == CHOOSE x \in S : \A y \in S : y <= x

RECURSIVE DescSeq(_)
DescSeq(S) == IF S = {} THEN <<>> ELSE <<Max(S)>> \o DescSeq(S \ {Max(S)})

\* ---- database/crud.py ----------------------------------------------------
\* UserCRUD.get_by_telegram_id: the user's id, 0 for None.
get_by_telegram_id(us, tg) == IF tg \in DOMAIN us THEN tg ELSE 0

\* UserCRUD.get_all_verified
get_all_verified(us) == {u \in DOMAIN us : us[u].status = "VERIFIED"}

\* VotingCRUD.get_by_id: the row, NoRow for None.
get_by_id(vs, id) == IF id \in DOMAIN vs THEN vs[id] ELSE NoRow

\* VotingCRUD.get_active: status ACTIVE and ends_at > utcnow(), newest first.
get_active(vs, t) ==
  DescSeq({q \in DOMAIN vs : vs[q].status = "ACTIVE" /\ vs[q].ends_at > t})

\* VoteCRUD.get_user_vote: the rows matched; scalar_one_or_none() returns None
\* for no row, the row for one, and raises MultipleResultsFound for more.
UserVoteRows(vt, u, q) ==
  SumOver({k \in DOMAIN vt : k[1] = u /\ k[2] = q}, vt)

\* VoteCRUD.count_votes
count_votes(vt, q) == SumOver({k \in DOMAIN vt : k[2] = q}, vt)

OptionCount(vt, q, o) == SumOver({k \in DOMAIN vt : k[2] = q /\ k[3] = o}, vt)

\* VoteCRUD.get_voting_results: GROUP BY option_index, so only options that
\* have a vote are keys of the dict.
get_voting_results(vt, q) ==
  [o \in {x \in OptionInputs : OptionCount(vt, q, x) > 0} |-> OptionCount(vt, q, o)]

\* VoteCRUD.create: one more row.
VoteCreate(vt, u, q, o) == [vt EXCEPT ![<<u, q, o>>] = @ + 1]

\* VotingCRUD.update: setattr on the session's object, commit, refresh.  The
\* UPDATE carries the attributes whose new value differs from the loaded one.
VotingUpdate(db, loaded, fields, new) ==
  [f \in DOMAIN db |->
     IF f \in fields /\ new[f] # loaded[f] THEN new[f] ELSE db[f]]

\* ---- utils/helpers.py: is_quiet_hours -------------------------------------
\* config.QUIET_HOURS_START and config.QUIET_HOURS_END, "22:00" and "08:00",
\* after split(':') and int.
QUIET_HOURS_START == <<22, 0>>
QUIET_HOURS_END == <<8, 0>>

DayMinutes == 24 * 60

\* time(hour, minute), as the minute of the day.
time(hm) == hm[1] * 60 + hm[2]

\* is_quiet_hours, for the configured start and end and the local time t.
is_quiet_hours_mut(start, end, t) ==
  time(start) <= t /\ t <= time(end)
is_quiet_hours(start, end, t) ==
  IF time(start) < time(end)
  THEN time(start) <= t /\ t <= time(end)
  ELSE t >= time(start) \/ t <= time(end)

\* datetime.now(tz).time() when utcnow() is t: the clock starts at 07:45 local
\* time, so that an instant a tick before a whole number of days is inside
\* the quiet hours and the instant a tick after it is outside.
FirstReading == <<7, 45>>
\* A start two hours later in the day: the instants a tick before and a tick
\* after a whole number of days are both outside the quiet hours.
DaytimeReading == <<9, 45>>
LocalTime(t) == (time(started) + t * (60 \div TicksPerHour)) % DayMinutes

QuietAt(t) == is_quiet_hours(QUIET_HOURS_START, QUIET_HOURS_END, LocalTime(t))

\* ---- rows of the events and the notifications table ------------------------
EIds == 1..MaxEvents
NIds == 1..MaxNotices

\* models.py, Event: event_date, reminder_sent (default False). A deleted row
\* is gone (status "DELETED"); its id is not given to a later event.
NoEvent == [status |-> "NONE", event_date |-> 0, reminder_sent |-> FALSE]
\* Dates an admin types for an event: one and two days after the start.
EventDates == {Hours(1), Hours(2)}

\* models.py, Notification: user_id (None, here 0: all users), sent (default
\* False), sent_at, scheduled_for (None, here NoSchedule).
NoSchedule == 0 - 1
NoNotification ==
  [status |-> "NONE", user_id |-> 0, sent |-> FALSE, sent_at |-> NoSchedule,
   scheduled_for |-> NoSchedule]
ScheduleInputs == {NoSchedule, Hours(1)}

\* models.py, User: id is the key of the row, telegram_id the chat Telegram
\* knows the user by; the two are different numbers.
telegram_id(user_id) == NumMembers + user_id

\* The task of the two jobs of services/: which job, where it is, the rows it
\* loaded, the row it is at, the number of runs started so far and the time
\* the run started.
ServiceIdle ==
  [fn |-> "none", pc |-> "idle", list |-> <<>>, idx |-> 0, run |-> 0, t0 |-> 0]

\* result.scalars().all() of a select without ORDER BY: the rows in any order.
Orders(S) ==
  {seq \in [1..Cardinality(S) -> S] : \A i, j \in 1..Cardinality(S) : seq[i] = seq[j] => i = j}

\* EventCRUD.get_for_reminders(session, before_hours) when utcnow() is t.
get_for_reminders(es, before_hours, t) ==
  {e \in DOMAIN es :
     /\ es[e].status = "ROW"
     /\ es[e].reminder_sent = FALSE
     /\ es[e].event_date >= t + Ticks(before_hours - 1)
     /\ es[e].event_date <= t + Ticks(before_hours + 1)}

\* NotificationCRUD.get_pending(session) when utcnow() is t.
get_pending(ns, t) ==
  {n \in DOMAIN ns :
     /\ ns[n].status = "ROW"
     /\ ns[n].sent = FALSE
     /\ (ns[n].scheduled_for = NoSchedule \/ ns[n].scheduled_for <= t)}

\* ---- tasks ----------------------------------------------------------------
NoCall == [fn |-> "none"]

\* bot.py: run_repeating(start_reminder_service, interval=3600, first=10): a
\* part of the job starts again an hour after it last started, at the
\* earliest.
JOB_INTERVAL_HOURS == 1
NeverRun ==
  [remind |-> 0 - Ticks(JOB_INTERVAL_HOURS), sweep |-> 0 - Ticks(JOB_INTERVAL_HOURS),
   events |-> 0 - Ticks(JOB_INTERVAL_HOURS)]
Due(part) == now >= last_run[part] + Ticks(JOB_INTERVAL_HOURS)

\* The notices that tell a user about one voting: its results, its reminder.
NoticeKinds == {"results", "reminder"}
NoneDelivered == [x \in NoticeKinds \X QIds \X Members |-> <<>>]

\* send_message returned for each user of us, with a notice about each voting
\* of ids.
Deliver(kind, ids, us) ==
  [x \in DOMAIN delivered |->
     IF x[1] = kind /\ x[2] \in ids /\ x[3] \in us
     THEN Append(delivered[x], now) ELSE delivered[x]]

Idle ==
  [op |-> "none", pc |-> "idle", user |-> 0, vid |-> 0, arg |-> 0,
   voting |-> NoRow, list |-> <<>>, idx |-> 0, results |-> <<>>, total |-> 0,
   t0 |-> 0, closed |-> {}, sent |-> {}, export |-> "", quiet |-> FALSE,
   link |-> {}, tallies |-> <<>>, mail |-> {}, failed |-> {},
   text |-> <<0, 0, 0>>, title |-> 0, data |-> <<>>,
   res |-> ""]

Init ==
  /\ now = 0
  /\ instants \in {CoarseInstants, FineInstants}
  /\ started \in {FirstReading, DaytimeReading}
  /\ events = [e \in EIds |-> NoEvent]
  /\ notifications = [n \in NIds |-> NoNotification]
  /\ service = ServiceIdle
  /\ calls = {}
  /\ users = [u \in Members |-> UserRow(u)]
  /\ votings = [q \in QIds |-> NoRow]
  /\ votes = [k \in BallotKeys |-> 0]
  /\ procs = [p \in Procs |-> Idle]
  /\ sequential \in BOOLEAN
  /\ ops = 0
  /\ dropped = {}
  /\ pure = NoCall
  /\ last_run = NeverRun
  /\ delivered = NoneDelivered

AllIdle == \A r \in Procs : procs[r].pc = "idle"
InFlight == {r \in Procs : procs[r].pc # "idle"}

\* A task that has ended is taken off before anything else runs.
NoneDone == \A r \in Procs : procs[r].pc # "done"
At(p, label) == NoneDone /\ procs[p].pc = label

Budget == IF sequential THEN MaxOps ELSE MaxConcOps

\* The application takes the next update for the lowest free task.
FreeSlot(p) ==
  /\ p \in Handlers
  /\ NoneDone
  /\ procs[p].pc = "idle"
  /\ \A r \in Handlers : r < p => procs[r].pc # "idle"
  /\ sequential => AllIdle
  /\ Cardinality(InFlight) < MaxProcs
  /\ ops < Budget
  /\ ops' = ops + 1

JobFree ==
  /\ NoneDone
  /\ procs[Job].pc = "idle"
  /\ sequential => AllIdle
  /\ Cardinality(InFlight) < MaxProcs
  /\ ops < Budget
  /\ ops' = ops + 1

Goto(p, r) == procs' = [procs EXCEPT ![p] = r]

\* The handler returned (or raised): its session is gone; the voting it was
\* about, what it answered and whom it wrote to is what is left of it.
Ended(p, outcome) ==
  [Idle EXCEPT !.op = procs[p].op, !.pc = "done", !.vid = procs[p].vid,
               !.closed = procs[p].closed, !.sent = procs[p].sent,
               !.export = procs[p].export, !.quiet = procs[p].quiet,
               !.link = procs[p].link, !.mail = procs[p].mail,
               !.failed = procs[p].failed, !.data = procs[p].data,
               !.res = outcome]

\* A handler that ends on its first step.
EndedAtOnce(name, outcome) ==
  [Idle EXCEPT !.op = name, !.pc = "done", !.res = outcome]

Begin(name, u, q, a) ==
  [Idle EXCEPT !.op = name, !.user = u, !.vid = q, !.arg = a]

Recipients == {u \in get_all_verified(users) : users[u].notifications_enabled}

\* The task is over; the application is free to run the next update in it.
Return(p) ==
  /\ procs[p].pc = "done"
  /\ Goto(p, Idle)
  /\ UNCHANGED <<now, started, instants, events, notifications, service, calls, users, votings, votes, sequential, ops, dropped, pure,
                 last_run, delivered>>

\* utcnow() moves on to the next instant.
Tick ==
  /\ NoneDone
  /\ \E t \in instants :
       /\ t > now
       /\ \A x \in instants : x > now => t <= x
       /\ now' = t
  /\ UNCHANGED <<started, instants, events, notifications, service, calls, users, votings, votes,
                 procs, sequential, ops, dropped, pure,
                 last_run, delivered>>

\* ---- handlers/voting.py: vote_cast_callback --------------------------------
\* voting = get_by_id(...); "if not voting or voting.status != ACTIVE: return"
CastStatusOk_mut(v) == v.status # "NONE"
CastStatusOk(v) == v.status = "ACTIVE"

\* user = get_by_telegram_id(...); voting = get_by_id(...); the status check.
\* No handler writes the users table, so the two reads are one step.
CastStart(p) ==
  /\ FreeSlot(p)
  /\ \E tg \in TgIds, q \in QIds, o \in OptionInputs :
       LET v == get_by_id(votings, q) IN
         IF CastStatusOk(v)
         THEN Goto(p, [Begin("cast", get_by_telegram_id(users, tg), q, o)
                         EXCEPT !.pc = "cast_existing", !.voting = v])
         ELSE Goto(p, [EndedAtOnce("cast", "not_active") EXCEPT !.vid = q])
  /\ UNCHANGED <<now, started, instants, events, notifications, service, calls, users, votings, votes, sequential, dropped, pure,
                 last_run, delivered>>

\* existing_vote = get_user_vote(session, user.id, voting_id): user.id raises
\* for user None, scalar_one_or_none raises for two rows.
CastExistingOutcome_mut(u, n) ==
  IF u = 0 THEN "error" ELSE "none"
CastExistingOutcome(u, n) ==
  IF u = 0 \/ n > 1 THEN "error"
  ELSE IF n = 1 THEN "already_voted" ELSE "none"

CastGetUserVote(p) ==
  /\ At(p, "cast_existing")
  /\ LET out == CastExistingOutcome(procs[p].user,
                  UserVoteRows(votes, procs[p].user, procs[p].vid)) IN
       IF out = "none"
       THEN Goto(p, [procs[p] EXCEPT !.pc = "cast_create"])
       ELSE Goto(p, Ended(p, out))
  /\ UNCHANGED <<now, started, instants, events, notifications, service, calls, users, votings, votes, sequential, ops, dropped, pure,
                 last_run, delivered>>

CastCreate(p) ==
  /\ At(p, "cast_create")
  /\ votes' = VoteCreate(votes, procs[p].user, procs[p].vid, procs[p].arg)
  /\ Goto(p, [procs[p] EXCEPT !.pc = "cast_count"])
  /\ UNCHANGED <<now, started, instants, events, notifications, service, calls, users, votings, sequential, ops, dropped, pure,
                 last_run, delivered>>

CastCount(p) ==
  /\ At(p, "cast_count")
  /\ Goto(p, [procs[p] EXCEPT !.pc = "cast_update",
                              !.total = count_votes(votes, procs[p].vid)])
  /\ UNCHANGED <<now, started, instants, events, notifications, service, calls, users, votings, votes, sequential, ops, dropped, pure,
                 last_run, delivered>>

\* VotingCRUD.update(session, voting, total_votes=total_votes); the answer
\* that follows reads options[option_index].
CastUpdate(p) ==
  /\ At(p, "cast_update")
  /\ LET v == procs[p].voting IN
       votings' = [votings EXCEPT ![procs[p].vid] =
                     VotingUpdate(@, v, {"total_votes"},
                                  [v EXCEPT !.total_votes = procs[p].total])]
  /\ Goto(p, Ended(p, IF procs[p].arg \in Options THEN "ok" ELSE "error"))
  /\ UNCHANGED <<now, started, instants, events, notifications, service, calls, users, votes, sequential, ops, dropped, pure, last_run, delivered>>

\* ---- handlers/voting.py: vote_recast_callback ------------------------------
RecastStatusOk(v) == v.status = "ACTIVE"

RecastStart(p) ==
  /\ FreeSlot(p)
  /\ \E tg \in TgIds, q \in QIds, o \in OptionInputs :
       LET v == get_by_id(votings, q) IN
         IF RecastStatusOk(v)
         THEN Goto(p, [Begin("recast", get_by_telegram_id(users, tg), q, o)
                         EXCEPT !.pc = "recast_existing", !.voting = v])
         ELSE Goto(p, [EndedAtOnce("recast", "not_active") EXCEPT !.vid = q])
  /\ UNCHANGED <<now, started, instants, events, notifications, service, calls, users, votings, votes, sequential, dropped, pure,
                 last_run, delivered>>

RecastExistingOutcome(u, n) ==
  IF u = 0 \/ n > 1 THEN "error"
  ELSE IF n = 0 THEN "not_voted" ELSE "found"

RecastGetUserVote(p) ==
  /\ At(p, "recast_existing")
  /\ LET out == RecastExistingOutcome(procs[p].user,
                  UserVoteRows(votes, procs[p].user, procs[p].vid)) IN
       IF out = "found"
       THEN Goto(p, [procs[p] EXCEPT !.pc = "recast_update"])
       ELSE Goto(p, Ended(p, out))
  /\ UNCHANGED <<now, started, instants, events, notifications, service, calls, users, votings, votes, sequential, ops, dropped, pure,
                 last_run, delivered>>

\* "await VoteCRUD.update(session, existing_vote, option_index=option_index)":
\* class VoteCRUD defines create, get_user_vote, count_votes and
\* get_voting_results and no update, so the call raises AttributeError and the
\* session is closed with nothing written.
VoteCRUD_update(vt, u, q, o) == vt

RecastUpdate(p) ==
  /\ At(p, "recast_update")
  /\ votes' = VoteCRUD_update(votes, procs[p].user, procs[p].vid, procs[p].arg)
  /\ Goto(p, Ended(p, "error"))
  /\ UNCHANGED <<now, started, instants, events, notifications, service, calls, users, votings, sequential, ops, dropped, pure,
                 last_run, delivered>>

\* ---- closing: the loop body shared by voting_end_callback and -------------
\* ---- close_expired_votings ------------------------------------------------
Snapshots(ids) == [i \in 1..Len(ids) |-> [id |-> ids[i], row |-> votings[ids[i]]]]

CloseFields == {"status", "results", "total_votes"}

\* VotingCRUD.update(session, voting, status=COMPLETED, results=results,
\*                   total_votes=total_votes)
CloseRow_mut(db, loaded, res, tot) ==
  VotingUpdate(db, loaded, {"status", "total_votes"},
               [loaded EXCEPT !.status = "COMPLETED", !.total_votes = tot])
CloseRow(db, loaded, res, tot) ==
  VotingUpdate(db, loaded, CloseFields,
               [loaded EXCEPT !.status = "COMPLETED", !.results = <<res>>,
                              !.total_votes = tot])

\* The export collaborator returns a URL, returns None, or raises; both
\* callers wrap the call in try/except and go on with sheets_url = None.
ExportOutcomes == {"url", "none", "raise"}
SheetsUrl(export) == export = "url"

\* ---- the results message ----------------------------------------------------
\* "votes = results.get(i, 0)"
Get(results, i) == IF i \in DOMAIN results THEN results[i] ELSE 0

\* "percent = (votes / total_votes * 100) if total_votes > 0 else 0", printed
\* with "{percent:.1f}": tenths of a percent.
Percent_mut(n, total) ==
  IF total > 0 THEN (n * 2000 + total) \div (2 * total) ELSE 1000
Percent(n, total) ==
  IF total > 0 THEN (n * 2000 + total) \div (2 * total) ELSE 0

\* "for i, option in enumerate(options):" one line per option of the voting.
TallyLines(results, total) ==
  [i \in Options |-> [count |-> Get(results, i),
                      percent |-> Percent(Get(results, i), total)]]

\* One entry of all_voting_results, as the message prints it.
Printed(tally) ==
  [id |-> tally.id, total |-> tally.total,
   lines |-> TallyLines(tally.results, tally.total)]

\* ---- handlers/voting.py: voting_end_callback -------------------------------
EndStart(p) ==
  /\ FreeSlot(p)
  /\ \E tg \in TgIds :
       LET u == get_by_telegram_id(users, tg) IN
         IF u = 0 \/ ~users[u].is_admin
         THEN Goto(p, EndedAtOnce("end", "denied"))
         ELSE Goto(p, [Begin("end", u, 0, 0) EXCEPT !.pc = "end_list"])
  /\ UNCHANGED <<now, started, instants, events, notifications, service, calls, users, votings, votes, sequential, dropped, pure,
                 last_run, delivered>>

EndGetActive(p) ==
  /\ At(p, "end_list")
  /\ LET ids == get_active(votings, now) IN
       IF ids = <<>>
       THEN Goto(p, Ended(p, "none_active"))
       ELSE Goto(p, [procs[p] EXCEPT !.pc = "end_results", !.idx = 1,
                                     !.list = Snapshots(ids)])
  /\ UNCHANGED <<now, started, instants, events, notifications, service, calls, users, votings, votes, sequential, ops, dropped, pure,
                 last_run, delivered>>

EndResults(p) ==
  /\ At(p, "end_results")
  /\ Goto(p, [procs[p] EXCEPT !.pc = "end_count",
                !.results = get_voting_results(votes, procs[p].list[procs[p].idx].id)])
  /\ UNCHANGED <<now, started, instants, events, notifications, service, calls, users, votings, votes, sequential, ops, dropped, pure,
                 last_run, delivered>>

EndCount(p) ==
  /\ At(p, "end_count")
  /\ Goto(p, [procs[p] EXCEPT !.pc = "end_update",
                !.total = count_votes(votes, procs[p].list[procs[p].idx].id)])
  /\ UNCHANGED <<now, started, instants, events, notifications, service, calls, users, votings, votes, sequential, ops, dropped, pure,
                 last_run, delivered>>

EndUpdate(p) ==
  /\ At(p, "end_update")
  /\ LET e == procs[p].list[procs[p].idx] IN
       /\ votings' = [votings EXCEPT ![e.id] =
                        CloseRow(@, e.row, procs[p].results, procs[p].total)]
       /\ Goto(p, [procs[p] EXCEPT
                     !.pc = IF procs[p].idx < Len(procs[p].list)
                            THEN "end_results" ELSE "end_notify",
                     !.idx = @ + 1, !.results = <<>>, !.total = 0,
                     !.tallies = Append(@, [id |-> e.id,
                                            results |-> procs[p].results,
                                            total |-> procs[p].total]),
                     !.closed = @ \cup {e.id}])
  /\ UNCHANGED <<now, started, instants, events, notifications, service, calls, users, votes, sequential, ops, dropped, pure, last_run, delivered>>

\* "for u in verified_users: if u.notifications_enabled:" the message is sent
\* whatever the export gave.
EndRecipients_mut(export) == IF export = "raise" THEN {} ELSE Recipients
EndRecipients(export) == Recipients

\* "if u.is_admin and sheets_url:" the link is added to the message.
EndLinkShown(u, export) == users[u].is_admin /\ SheetsUrl(export)

\* "try: ... send_message ... except Exception as e: logger.error(...)" inside
\* the loop: a send that fails does not end the loop.
EndAttempted(to, failed) == to

\* The message is built inside the loop, once for each user, from the whole of
\* all_voting_results.
EndMessages_mut(tallies, to) ==
  {[kind |-> "results", to |-> u, about |-> <<Printed(tallies[i])>>] :
     u \in to, i \in 1..Len(tallies)}
EndMessages(tallies, to) ==
  {[kind |-> "results", to |-> u,
    about |-> [i \in 1..Len(tallies) |-> Printed(tallies[i])]] : u \in to}

\* The export, then one message with all results to each verified user; any
\* of the sends can fail.
EndNotify(p) ==
  /\ At(p, "end_notify")
  /\ \E export \in ExportOutcomes : \E failed \in SUBSET EndRecipients(export) :
       LET to == EndAttempted(EndRecipients(export), failed) IN
         /\ Goto(p, [Ended(p, "ok") EXCEPT
                       !.export = export,
                       !.sent = to,
                       !.failed = failed,
                       !.mail = EndMessages(procs[p].tallies, to),
                       !.link = {u \in to : EndLinkShown(u, export)}])
         /\ delivered' = Deliver("results",
                                 {procs[p].tallies[i].id : i \in DOMAIN procs[p].tallies},
                                 to \ failed)
  /\ UNCHANGED <<now, started, instants, events, notifications, service, calls, users, votings, votes, sequential, ops, dropped, pure, last_run>>

\* ---- services/reminder_service.py: close_expired_votings ------------------
SweepAdvance(r) ==
  [r EXCEPT !.pc = IF r.idx < Len(r.list) THEN "sweep_check" ELSE "done",
            !.idx = IF r.idx < Len(r.list) THEN r.idx + 1 ELSE 0,
            !.list = IF r.idx < Len(r.list) THEN r.list ELSE <<>>,
            !.res = IF r.idx < Len(r.list) THEN "" ELSE "ok",
            !.results = <<>>, !.total = 0]

\* start_reminder_service runs the job; active_votings = get_active(session).
SweepStart ==
  /\ JobFree
  /\ Due("sweep")
  /\ last_run' = [last_run EXCEPT !.sweep = now]
  /\ LET ids == get_active(votings, now) IN
       IF ids = <<>>
       THEN Goto(Job, [EndedAtOnce("sweep", "ok") EXCEPT !.t0 = now])
       ELSE Goto(Job, [Begin("sweep", 0, 0, 0) EXCEPT !.pc = "sweep_check",
                         !.idx = 1, !.list = Snapshots(ids), !.t0 = now])
  /\ UNCHANGED <<now, started, instants, events, notifications, service, calls, users, votings, votes, sequential, dropped, pure, delivered>>

\* "if voting.ends_at <= datetime.utcnow():"
SweepCheck ==
  /\ At(Job, "sweep_check")
  /\ LET r == procs[Job] IN
       IF r.list[r.idx].row.ends_at <= now
       THEN Goto(Job, [r EXCEPT !.pc = "sweep_results"])
       ELSE Goto(Job, SweepAdvance(r))
  /\ UNCHANGED <<now, started, instants, events, notifications, service, calls, users, votings, votes, sequential, ops, dropped, pure,
                 last_run, delivered>>

SweepResults ==
  /\ At(Job, "sweep_results")
  /\ Goto(Job, [procs[Job] EXCEPT !.pc = "sweep_count",
       !.results = get_voting_results(votes, procs[Job].list[procs[Job].idx].id)])
  /\ UNCHANGED <<now, started, instants, events, notifications, service, calls, users, votings, votes, sequential, ops, dropped, pure,
                 last_run, delivered>>

SweepCount ==
  /\ At(Job, "sweep_count")
  /\ Goto(Job, [procs[Job] EXCEPT !.pc = "sweep_update",
       !.total = count_votes(votes, procs[Job].list[procs[Job].idx].id)])
  /\ UNCHANGED <<now, started, instants, events, notifications, service, calls, users, votings, votes, sequential, ops, dropped, pure,
                 last_run, delivered>>

SweepUpdate ==
  /\ At(Job, "sweep_update")
  /\ LET r == procs[Job]
         e == r.list[r.idx] IN
       /\ votings' = [votings EXCEPT ![e.id] = CloseRow(@, e.row, r.results, r.total)]
       /\ Goto(Job, [r EXCEPT !.pc = "sweep_notify", !.closed = @ \cup {e.id}])
  /\ UNCHANGED <<now, started, instants, events, notifications, service, calls, users, votes, sequential, ops, dropped, pure, last_run, delivered>>

\* _send_voting_results: "if user.notifications_enabled and not
\* is_quiet_hours():" the message is sent, whatever the export gave.
SweepRecipients(export, quiet) == IF quiet THEN {} ELSE Recipients

\* "if sheets_url:" the link is part of the one message sent to every user.
SweepLinkShown(u, export) == SheetsUrl(export)

\* _send_voting_results for the voting just closed, then the next voting of
\* the list.
\* "try: ... send_message ... except Exception as e: logger.error(...)" inside
\* the loop.
SweepAttempted(to, failed) == to

\* One message for the voting just closed, the same for every user.
SweepMessages(tally, to) ==
  {[kind |-> "results", to |-> u, about |-> <<Printed(tally)>>] : u \in to}

\* A notice the job leaves out because of the quiet hours.
Skipped(kind, id, us) == {<<kind, id, u>> : u \in us}

SweepNotify ==
  /\ At(Job, "sweep_notify")
  /\ \E export \in ExportOutcomes, failed \in SUBSET Recipients :
       LET r == procs[Job]
           id == r.list[r.idx].id
           quiet == QuietAt(now)
           to == SweepAttempted(SweepRecipients(export, quiet), failed) IN
         /\ failed \subseteq to
         /\ Goto(Job, SweepAdvance([r EXCEPT
                !.export = export, !.quiet = quiet,
                !.sent = @ \cup to,
                !.failed = @ \cup failed,
                !.mail = @ \cup SweepMessages([id |-> id, results |-> r.results,
                                               total |-> r.total], to),
                !.link = @ \cup {u \in to : SweepLinkShown(u, export)}]))
         /\ dropped' = dropped \cup Skipped("results", id, IF quiet THEN Recipients ELSE {})
         /\ delivered' = Deliver("results", {id}, to \ failed)
  /\ UNCHANGED <<now, started, instants, events, notifications, service, calls, users, votings, votes, sequential, ops, pure, last_run>>

\* ---- services/reminder_service.py: send_voting_reminders -------------------
RemindAdvance(r) ==
  [r EXCEPT !.pc = IF r.idx < Len(r.list) THEN "remind_check" ELSE "done",
            !.idx = IF r.idx < Len(r.list) THEN r.idx + 1 ELSE 0,
            !.list = IF r.idx < Len(r.list) THEN r.list ELSE <<>>,
            !.res = IF r.idx < Len(r.list) THEN "" ELSE "ok"]

\* active_votings = get_active(session)
RemindStart ==
  /\ JobFree
  /\ Due("remind")
  /\ last_run' = [last_run EXCEPT !.remind = now]
  /\ LET ids == get_active(votings, now) IN
       IF ids = <<>>
       THEN Goto(Job, [EndedAtOnce("remind", "ok") EXCEPT !.t0 = now])
       ELSE Goto(Job, [Begin("remind", 0, 0, 0) EXCEPT !.pc = "remind_check",
                         !.idx = 1, !.list = Snapshots(ids), !.t0 = now])
  /\ UNCHANGED <<now, started, instants, events, notifications, service, calls, users, votings, votes, sequential, dropped, pure, delivered>>

\* "timedelta(hours=23) < time_until_end < timedelta(hours=25)"
InReminderWindow(ends_at, t) ==
  /\ Ticks(REMINDER_MIN_HOURS) < ends_at - t
  /\ ends_at - t < Ticks(REMINDER_MAX_HOURS)

\* time_until_end = voting.ends_at - datetime.utcnow(); t0 keeps the time of
\* the test.
RemindCheck ==
  /\ At(Job, "remind_check")
  /\ LET r == procs[Job] IN
       IF InReminderWindow(r.list[r.idx].row.ends_at, now)
       THEN Goto(Job, [r EXCEPT !.pc = "remind_send", !.t0 = now])
       ELSE Goto(Job, RemindAdvance(r))
  /\ UNCHANGED <<now, started, instants, events, notifications, service, calls, users, votings, votes, sequential, ops, dropped, pure,
                 last_run, delivered>>

\* "if not existing_vote and user.notifications_enabled and not
\* is_quiet_hours():"
RemindWanted(u, q) == UserVoteRows(votes, u, q) = 0 /\ users[u].notifications_enabled
RemindEligible(u, q, quiet) == RemindWanted(u, q) /\ ~quiet

\* "try: ... send_message ... except Exception as e: logger.error(...)" inside
\* the loop.
RemindAttempted(to, failed) == to

\* _send_voting_reminder: the loop over get_all_verified; get_user_vote, which
\* is outside the try, raises for a user with two ballots and ends the run.
RemindSend ==
  /\ At(Job, "remind_send")
  /\ LET r == procs[Job]
         q == r.list[r.idx].id
         quiet == QuietAt(now)
         all == get_all_verified(users)
         twice == {u \in all : UserVoteRows(votes, u, q) > 1}
         reached == {u \in all : \A b \in twice : u < b}
         eligible == {u \in reached : RemindEligible(u, q, quiet)}
     IN \E failed \in SUBSET eligible :
          LET to == RemindAttempted(eligible, failed)
              after == [r EXCEPT !.quiet = quiet,
                                 !.sent = @ \cup to,
                                 !.failed = @ \cup failed,
                                 !.mail = @ \cup {[kind |-> "reminder", to |-> u,
                                                   about |-> <<[id |-> q]>>] : u \in to}]
          IN /\ IF twice = {}
                THEN Goto(Job, RemindAdvance(after))
                ELSE Goto(Job, [after EXCEPT !.pc = "done", !.res = "error"])
             /\ dropped' = dropped \cup Skipped("reminder", q,
                              IF quiet THEN {u \in reached : RemindWanted(u, q)} ELSE {})
             /\ delivered' = Deliver("reminder", {q}, to \ failed)
  /\ UNCHANGED <<now, started, instants, events, notifications, service, calls, users, votings, votes, sequential, ops, pure, last_run>>

\* ---- handlers/start.py: settings_notifications_callback ---------------------
\* enable = (action == "on"); "if user: UserCRUD.update(session, user,
\* notifications_enabled=enable)"
SettingsStart(p) ==
  /\ FreeSlot(p)
  /\ \E tg \in TgIds, enable \in BOOLEAN :
       LET u == get_by_telegram_id(users, tg) IN
         IF u = 0
         THEN /\ Goto(p, EndedAtOnce("settings", "no_user"))
              /\ users' = users
         ELSE /\ Goto(p, EndedAtOnce("settings", "ok"))
              /\ users' = [users EXCEPT ![u].notifications_enabled = enable]
  /\ UNCHANGED <<now, started, instants, events, notifications, service, calls, votings, votes, sequential, dropped, pure, last_run, delivered>>

\* ---- handlers/admin.py: publishing a draft ---------------------------------
\* Callback data "admin_voting_publish_<id>" (the draft view's button) and
\* "admin_voting_publish_<id>_<days>" (the duration menu and the custom
\* duration handler's fake query), as the list of numbers after the prefix.
DayChoices == {3, 7, 14, 30}
PublishPayloads ==
  {<<q>> : q \in QIds} \cup {<<q, d>> : q \in QIds, d \in DayChoices}

\* voting_id = int(query.data.split("_")[-1])
LastNumber(payload) == payload[Len(payload)]

PublishFields == {"status", "starts_at", "ends_at"}

\* VotingCRUD.update(session, voting, status=ACTIVE, starts_at=..., ends_at=...)
PublishRow_mut(db, loaded, t, days) == db
PublishRow(db, loaded, t, days) ==
  VotingUpdate(db, loaded, PublishFields,
               [loaded EXCEPT !.status = "ACTIVE", !.starts_at = t,
                              !.ends_at = t + Hours(days)])

\* admin_voting_publish_callback; it reads the callback data and never the
\* user who sent it (kept in the task as the caller).
PublishStart(p) ==
  /\ FreeSlot(p)
  /\ \E tg \in TgIds, payload \in PublishPayloads :
       LET q == LastNumber(payload)
           v == get_by_id(votings, q) IN
         IF v.status = "NONE"
         THEN Goto(p, [EndedAtOnce("publish", "not_found") EXCEPT !.data = payload])
         ELSE Goto(p, [Begin("publish", get_by_telegram_id(users, tg), q, SENTINEL_DAYS)
                         EXCEPT !.pc = "publish_update", !.voting = v,
                                !.data = payload])
  /\ UNCHANGED <<now, started, instants, events, notifications, service, calls, users, votings, votes, sequential, dropped, pure,
                 last_run, delivered>>

PublishUpdate(p) ==
  /\ At(p, "publish_update")
  /\ votings' = [votings EXCEPT ![procs[p].vid] =
                   PublishRow(@, procs[p].voting, now, procs[p].arg)]
  /\ Goto(p, [procs[p] EXCEPT !.pc = "publish_notify"])
  /\ UNCHANGED <<now, started, instants, events, notifications, service, calls, users, votes, sequential, ops, dropped, pure, last_run, delivered>>

\* "try: ... send_message ... except Exception: pass" inside the loop over the
\* verified users.
PublishAttempted_mut(to, failed) == {u \in to : \A f \in failed : u <= f}
PublishAttempted(to, failed) == to

\* The creator is told, then every verified user with notifications enabled
\* is sent the question with its vote buttons; any of the sends can fail.
PublishNotify(p) ==
  /\ At(p, "publish_notify")
  /\ \E failed \in SUBSET Recipients :
       Goto(p, [Ended(p, "ok") EXCEPT !.sent = PublishAttempted(Recipients, failed),
                                      !.failed = failed])
  /\ UNCHANGED <<now, started, instants, events, notifications, service, calls, users, votings, votes, sequential, ops, dropped, pure,
                 last_run, delivered>>

\* admin_voting_custom_duration_receive: days typed by the user, voting_id
\* from user_data['custom_duration_voting_id'] (0: not set).
CustomDaysOk(days) == ~(days < CUSTOM_MIN_DAYS \/ days > CUSTOM_MAX_DAYS)

CustomStart(p) ==
  /\ FreeSlot(p)
  /\ \E tg \in TgIds, q \in 0..MaxQ, days \in CustomDayInputs :
       LET v == get_by_id(votings, q) IN
         IF ~CustomDaysOk(days)
         THEN Goto(p, EndedAtOnce("custom", "bad_days"))
         ELSE IF q = 0
         THEN Goto(p, EndedAtOnce("custom", "no_voting_id"))
         ELSE IF v.status = "NONE"
         THEN Goto(p, EndedAtOnce("custom", "not_found"))
         ELSE Goto(p, [Begin("custom", get_by_telegram_id(users, tg), q, days)
                         EXCEPT !.pc = "custom_update", !.voting = v])
  /\ UNCHANGED <<now, started, instants, events, notifications, service, calls, users, votings, votes, sequential, dropped, pure,
                 last_run, delivered>>

CustomUpdate(p) ==
  /\ At(p, "custom_update")
  /\ votings' = [votings EXCEPT ![procs[p].vid] =
                   PublishRow(@, procs[p].voting, now, procs[p].arg)]
  /\ Goto(p, [procs[p] EXCEPT !.pc = "custom_notify"])
  /\ UNCHANGED <<now, started, instants, events, notifications, service, calls, users, votes, sequential, ops, dropped, pure, last_run, delivered>>

\* "try: ... send_message ... except Exception as e: logger.error(...)" inside
\* the loop.
CustomAttempted(to, failed) == to

CustomNotify(p) ==
  /\ At(p, "custom_notify")
  /\ \E failed \in SUBSET Recipients :
       Goto(p, [Ended(p, "ok") EXCEPT !.sent = CustomAttempted(Recipients, failed),
                                      !.failed = failed])
  /\ UNCHANGED <<now, started, instants, events, notifications, service, calls, users, votings, votes, sequential, ops, dropped, pure,
                 last_run, delivered>>

\* ---- handlers/admin.py: admin_voting_reject_callback ----------------------
\* VotingCRUD.update(session, voting, status=CANCELLED)
RejectRow(db, loaded) ==
  VotingUpdate(db, loaded, {"status"}, [loaded EXCEPT !.status = "CANCELLED"])

RejectStart(p) ==
  /\ FreeSlot(p)
  /\ \E tg \in TgIds, q \in QIds :
       LET v == get_by_id(votings, q) IN
         IF v.status = "NONE"
         THEN Goto(p, EndedAtOnce("reject", "not_found"))
         ELSE Goto(p, [Begin("reject", get_by_telegram_id(users, tg), q, 0)
                         EXCEPT !.pc = "reject_update", !.voting = v])
  /\ UNCHANGED <<now, started, instants, events, notifications, service, calls, users, votings, votes, sequential, dropped, pure,
                 last_run, delivered>>

\* The update, then the message to the creator.
RejectUpdate(p) ==
  /\ At(p, "reject_update")
  /\ votings' = [votings EXCEPT ![procs[p].vid] = RejectRow(@, procs[p].voting)]
  /\ Goto(p, [Ended(p, "ok") EXCEPT !.sent = {procs[p].voting.creator}])
  /\ UNCHANGED <<now, started, instants, events, notifications, service, calls, users, votes, sequential, ops, dropped, pure, last_run, delivered>>

\* ---- handlers/admin.py: admin_voting_delete_callback ----------------------
\* VotingCRUD.delete: voting.status = CANCELLED; commit; refresh
DeleteRow_mut(db, loaded) == NoRow
DeleteRow(db, loaded) ==
  VotingUpdate(db, loaded, {"status"}, [loaded EXCEPT !.status = "CANCELLED"])

DeleteStart(p) ==
  /\ FreeSlot(p)
  /\ \E tg \in TgIds, q \in QIds :
       LET v == get_by_id(votings, q) IN
         IF v.status = "NONE"
         THEN Goto(p, EndedAtOnce("delete", "not_found"))
         ELSE Goto(p, [Begin("delete", get_by_telegram_id(users, tg), q, 0)
                         EXCEPT !.pc = "delete_update", !.voting = v])
  /\ UNCHANGED <<now, started, instants, events, notifications, service, calls, users, votings, votes, sequential, dropped, pure,
                 last_run, delivered>>

\* "try: ... send_message ... except Exception: pass" inside the loop.
DeleteAttempted(to, failed) == to

\* The delete, then the notice to every verified user; any of the sends can
\* fail.
DeleteUpdate(p) ==
  /\ At(p, "delete_update")
  /\ votings' = [votings EXCEPT ![procs[p].vid] = DeleteRow(@, procs[p].voting)]
  /\ \E failed \in SUBSET Recipients :
       Goto(p, [Ended(p, "ok") EXCEPT !.sent = DeleteAttempted(Recipients, failed),
                                      !.failed = failed])
  /\ UNCHANGED <<now, started, instants, events, notifications, service, calls, users, votes, sequential, ops, dropped, pure, last_run, delivered>>

\* ---- handlers/admin.py: admin_revoke_callback -----------------------------
\* user_id = int(query.data.split("_")[2]); user = UserCRUD.get_by_id(...)
RevokeStart(p) ==
  /\ FreeSlot(p)
  /\ \E target \in 0..NumMembers :
       IF target \notin DOMAIN users
       THEN Goto(p, EndedAtOnce("revoke", "not_found"))
       ELSE Goto(p, [Begin("revoke", 0, 0, target) EXCEPT !.pc = "revoke_update"])
  /\ UNCHANGED <<now, started, instants, events, notifications, service, calls, users, votings, votes, sequential, dropped, pure,
                 last_run, delivered>>

\* UserCRUD.update(session, user, status=REJECTED, verified_at=None); then the
\* registry export and the message to the user.
RevokeUpdate(p) ==
  /\ At(p, "revoke_update")
  /\ users' = [users EXCEPT ![procs[p].arg].status = "REJECTED"]
  /\ Goto(p, [Ended(p, "ok") EXCEPT !.sent = {procs[p].arg}])
  /\ UNCHANGED <<now, started, instants, events, notifications, service, calls, votings, votes, sequential, ops, dropped, pure,
                 last_run, delivered>>

\* ---- handlers/voting.py: creating a voting ---------------------------------
\* utils/validators.py validate_description, on the length of the stripped text
validate_description(len) == 10 <= len /\ len <= 4000

DescriptionLengths == {9, 10}

\* utils/validators.py validate_title, on the length of the stripped title
validate_title(len) == 5 <= len /\ len <= 500

\* A typed text is the triple of the lengths of its leading whitespace, of
\* what lies from its first to its last non-blank character, and of its
\* trailing whitespace.  str.strip() leaves the middle part.
ProposeTexts ==
  {<<1, 9, 1>>, <<0, 10, 0>>, <<1, 101, 0>>, <<0, 4000, 0>>, <<0, 4001, 0>>}
strip_mut(text) == text[1] + text[2] + text[3]
strip(text) == text[2]

\* "title = description[:100] + ('...' if len(description) > 100 else '')"
ProposeTitle(len) == IF len > 100 THEN 100 + 3 ELSE len

Rows == {q \in QIds : votings[q].status # "NONE"}
Creating == {r \in Handlers : procs[r].pc \in {"propose_create", "direct_create"}}

\* VotingCRUD.create: the new row gets the next id.
VotingCreate(vs, row) == [vs EXCEPT ![Cardinality({q \in DOMAIN vs : vs[q].status # "NONE"}) + 1] = row]

\* propose_receive_description, the text step of the conversation that
\* voting_propose_callback opens for a user whose status is VERIFIED.  The
\* outcome "invalid" is "return PROPOSE_DESCRIPTION": the conversation stays
\* in the step that waits for the text; "ok" is ConversationHandler.END.
ProposeStart(p) ==
  /\ FreeSlot(p)
  /\ Cardinality(Rows) + Cardinality(Creating) < MaxQ
  /\ \E tg \in TgIds, text \in ProposeTexts :
       LET u == get_by_telegram_id(users, tg)
           description == strip(text)
       IN /\ u # 0 /\ users[u].status = "VERIFIED"
          /\ IF validate_description(description)
             THEN Goto(p, [Begin("propose", u, 0, description) EXCEPT
                             !.pc = "propose_create", !.text = text])
             ELSE Goto(p, [EndedAtOnce("propose", "invalid") EXCEPT !.text = text])
  /\ UNCHANGED <<now, started, instants, events, notifications, service, calls, users, votings, votes, sequential, dropped, pure,
                 last_run, delivered>>

\* status=DRAFT, starts_at=utcnow(), ends_at=utcnow()+VOTE_DURATION_DAYS;
\* then the admins are told.
ProposeCreate(p) ==
  /\ At(p, "propose_create")
  /\ votings' = VotingCreate(votings,
       NewVoting("DRAFT", procs[p].user, now, now + Hours(VOTE_DURATION_DAYS)))
  /\ Goto(p, [Ended(p, "ok") EXCEPT
                !.sent = {u \in DOMAIN users : users[u].is_admin},
                !.text = procs[p].text,
                !.title = ProposeTitle(procs[p].arg)])
  /\ UNCHANGED <<now, started, instants, events, notifications, service, calls, users, votes, sequential, ops, dropped, pure, last_run, delivered>>

\* voting_receive_description, the last step of the conversation that
\* voting_create_start opens for an admin.
DirectStart(p) ==
  /\ FreeSlot(p)
  /\ Cardinality(Rows) + Cardinality(Creating) < MaxQ
  /\ \E tg \in TgIds, len \in DescriptionLengths :
       LET u == get_by_telegram_id(users, tg) IN
         /\ u # 0 /\ users[u].is_admin
         /\ IF validate_description(len)
            THEN Goto(p, [Begin("direct", u, 0, len) EXCEPT !.pc = "direct_create"])
            ELSE Goto(p, EndedAtOnce("direct", "invalid"))
  /\ UNCHANGED <<now, started, instants, events, notifications, service, calls, users, votings, votes, sequential, dropped, pure,
                 last_run, delivered>>

\* status=ACTIVE, starts_at=utcnow(), ends_at=utcnow()+365 days; then every
\* other verified user is told.
DirectCreate(p) ==
  /\ At(p, "direct_create")
  /\ votings' = VotingCreate(votings,
       NewVoting("ACTIVE", procs[p].user, now, now + Hours(SENTINEL_DAYS)))
  /\ Goto(p, [Ended(p, "ok") EXCEPT
                !.sent = Recipients \ {procs[p].user}])
  /\ UNCHANGED <<now, started, instants, events, notifications, service, calls, users, votes, sequential, ops, dropped, pure, last_run, delivered>>

\* ---- the program ------------------------------------------------------------
Next ==
  \/ Tick
  \/ SweepStart \/ SweepCheck \/ SweepResults \/ SweepCount \/ SweepUpdate
  \/ SweepNotify
  \/ RemindStart \/ RemindCheck \/ RemindSend
  \/ \E p \in Procs : Return(p)
  \/ \E p \in Handlers :
       \/ CastStart(p) \/ CastGetUserVote(p)
       \/ CastCreate(p) \/ CastCount(p) \/ CastUpdate(p)
       \/ RecastStart(p) \/ RecastGetUserVote(p) \/ RecastUpdate(p)
       \/ EndStart(p) \/ EndGetActive(p) \/ EndResults(p) \/ EndCount(p)
       \/ EndUpdate(p) \/ EndNotify(p)
       \/ PublishStart(p) \/ PublishUpdate(p) \/ PublishNotify(p)
       \/ CustomStart(p) \/ CustomUpdate(p) \/ CustomNotify(p)
       \/ RejectStart(p) \/ RejectUpdate(p)
       \/ DeleteStart(p) \/ DeleteUpdate(p)
       \/ RevokeStart(p) \/ RevokeUpdate(p)
       \/ SettingsStart(p)
       \/ ProposeStart(p) \/ ProposeCreate(p)
       \/ DirectStart(p) \/ DirectCreate(p)

\* Handlers and the job run one at a time, each to completion.
InitSequential ==
  Init /\ sequential = TRUE /\ instants = CoarseInstants /\ started = FirstReading
Spec == InitSequential /\ [][Next]_vars

\* Handlers and the job interleave at their awaits.
InitConcurrent ==
  Init /\ sequential = FALSE /\ instants = CoarseInstants /\ started = FirstReading
SpecConc == InitConcurrent /\ [][Next]_vars

\* Handlers and the job run one at a time, and the clock is read closely
\* around the day before a voting ends.
InitHourly ==
  Init /\ sequential = TRUE /\ instants = FineInstants /\ started = FirstReading
SpecHourly == InitHourly /\ [][Next]_vars

\* The same clock two hours later in the day: the instants a tick before and a
\* tick after a whole number of days are both in daytime.
InitDaytime ==
  Init /\ sequential = TRUE /\ instants = FineInstants /\ started = DaytimeReading
SpecDaytime == InitDaytime /\ [][Next]_vars

\* ---- utils/helpers.py on its own -------------------------------------------
\* Start and end times the deployment can configure, and every minute of the
\* day as the local time.
ConfigTimes == {<<8, 0>>, <<22, 0>>}

InitQuiet ==
  /\ now = 0
  /\ instants = CoarseInstants
  /\ started = FirstReading
  /\ events = [e \in EIds |-> NoEvent]
  /\ notifications = [n \in NIds |-> NoNotification]
  /\ service = ServiceIdle
  /\ calls = {}
  /\ users = [u \in Members |-> UserRow(u)]
  /\ votings = [q \in QIds |-> NoRow]
  /\ votes = [k \in BallotKeys |-> 0]
  /\ procs = [p \in Procs |-> Idle]
  /\ sequential = TRUE
  /\ ops = 0
  /\ dropped = {}
  /\ last_run = NeverRun
  /\ delivered = NoneDelivered
  /\ pure \in {[fn |-> "is_quiet_hours", start |-> s, end |-> e, t |-> t,
                called |-> FALSE, out |-> FALSE] : s \in ConfigTimes, e \in ConfigTimes,
                                   t \in 0..(DayMinutes - 1)}

QuietCall ==
  /\ pure.fn = "is_quiet_hours" /\ ~pure.called
  /\ pure' = [pure EXCEPT !.called = TRUE,
                          !.out = is_quiet_hours(pure.start, pure.end, pure.t)]
  /\ UNCHANGED <<now, started, instants, events, notifications, service, calls, users, votings, votes, procs, sequential, ops, dropped,
                 last_run, delivered>>

SpecQuiet == InitQuiet /\ [][QuietCall]_vars

\* ---- handlers/events.py, services/: events and pending notifications --------
\* event_receive_location: EventCRUD.create with the date stored by the date
\* step, which takes a date in the future only.
EventCreate ==
  /\ \E e \in EIds : \E d \in EventDates :
       /\ events[e].status = "NONE"
       /\ \A x \in EIds : x < e => events[x].status # "NONE"
       /\ d > now
       /\ events' = [events EXCEPT ![e] = [status |-> "ROW", event_date |-> d,
                                            reminder_sent |-> FALSE]]
  /\ UNCHANGED <<now, started, instants, notifications, service, calls, users, votings, votes,
                 procs, sequential, ops, dropped, pure, last_run, delivered>>

\* event_delete_callback: EventCRUD.delete, session.delete(event) and commit.
EventDelete ==
  /\ \E e \in EIds :
       /\ events[e].status = "ROW"
       /\ events' = [events EXCEPT ![e].status = "DELETED"]
  /\ UNCHANGED <<now, started, instants, notifications, service, calls, users, votings, votes,
                 procs, sequential, ops, dropped, pure, last_run, delivered>>

\* NotificationCRUD.create: a row for one user or for all, sent = False.
NotificationCreate ==
  /\ \E n \in NIds : \E u \in {0} \cup Members : \E at \in ScheduleInputs :
       /\ notifications[n].status = "NONE"
       /\ \A x \in NIds : x < n => notifications[x].status # "NONE"
       /\ notifications' =
            [notifications EXCEPT ![n] = [status |-> "ROW", user_id |-> u, sent |-> FALSE,
                                          sent_at |-> NoSchedule, scheduled_for |-> at]]
  /\ UNCHANGED <<now, started, instants, events, service, calls, users, votings, votes,
                 procs, sequential, ops, dropped, pure, last_run, delivered>>

\* The run of a job is over.
ServiceEnd == [ServiceIdle EXCEPT !.run = service.run]
\* The job goes on to the next row it loaded, or ends after the last.
ServiceStep(next) ==
  IF service.idx < Len(service.list)
  THEN [service EXCEPT !.pc = next, !.idx = service.idx + 1]
  ELSE ServiceEnd

\* send_event_reminders: events = get_for_reminders(...).
EventsStart ==
  /\ service.pc = "idle" /\ service.run < MaxRuns
  /\ Due("events")
  /\ last_run' = [last_run EXCEPT !.events = now]
  /\ \E list \in Orders(get_for_reminders(events, REMINDER_HOURS_BEFORE, now)) :
       service' = IF list = <<>>
                  THEN [ServiceIdle EXCEPT !.run = service.run + 1]
                  ELSE [fn |-> "events", pc |-> "event_send", list |-> list, idx |-> 1,
                        run |-> service.run + 1, t0 |-> now]
  /\ UNCHANGED <<now, started, instants, events, notifications, calls, users, votings, votes,
                 procs, sequential, ops, dropped, pure, delivered>>

\* _send_event_reminder(event): a message to every verified user with
\* notifications on, unless is_quiet_hours().
EventsSend ==
  /\ service.pc = "event_send"
  /\ LET e == service.list[service.idx]
         to == IF QuietAt(now) THEN {} ELSE Recipients
     IN calls' = calls \cup {<<"_send_event_reminder", e, 0, service.run>>}
                       \cup {<<"send_message(event)", e, telegram_id(u), service.run>> : u \in to}
  /\ service' = [service EXCEPT !.pc = "event_mark"]
  /\ UNCHANGED <<now, started, instants, events, notifications, users, votings, votes,
                 procs, sequential, ops, dropped, pure, last_run, delivered>>

\* EventCRUD.update(session, event, reminder_sent=True): the UPDATE of a row
\* that was deleted meanwhile raises and ends the run.
MarkEvent_mut(row) == row
MarkEvent(row) == [row EXCEPT !.reminder_sent = TRUE]
EventsMark ==
  /\ service.pc = "event_mark"
  /\ LET e == service.list[service.idx] IN
       IF events[e].status = "ROW"
       THEN /\ events' = [events EXCEPT ![e] = MarkEvent(events[e])]
            /\ service' = ServiceStep("event_send")
       ELSE /\ events' = events
            /\ service' = ServiceEnd
  /\ UNCHANGED <<now, started, instants, notifications, calls, users, votings, votes,
                 procs, sequential, ops, dropped, pure, last_run, delivered>>

\* process_pending_notifications: "if is_quiet_hours(): return", else
\* pending = get_pending(session). The rows a run inside the quiet hours
\* leaves pending are noted in dropped.
NoticesStart ==
  /\ service.pc = "idle" /\ service.run < MaxRuns
  /\ IF QuietAt(now)
     THEN /\ service' = [ServiceIdle EXCEPT !.run = service.run + 1]
          /\ dropped' = dropped \cup {<<"notification", n, 0>> :
                                        n \in get_pending(notifications, now)}
     ELSE /\ \E list \in Orders(get_pending(notifications, now)) :
               service' = IF list = <<>>
                          THEN [ServiceIdle EXCEPT !.run = service.run + 1]
                          ELSE [fn |-> "notifications", pc |-> "notice_send", list |-> list,
                                idx |-> 1, run |-> service.run + 1, t0 |-> now]
          /\ dropped' = dropped
  /\ UNCHANGED <<now, started, instants, events, notifications, calls, users, votings, votes,
                 procs, sequential, ops, pure, last_run, delivered>>

\* _send_notification(notification): send_message(chat_id=notification.user_id)
\* "if notification.user_id", else a message to the telegram_id of every
\* verified user with notifications on.
NoticeChats(row) ==
  IF row.user_id # 0 THEN {row.user_id} ELSE {telegram_id(u) : u \in Recipients}
NoticesSend ==
  /\ service.pc = "notice_send"
  /\ LET n == service.list[service.idx] IN
       calls' = calls \cup {<<"_send_notification", n, 0, service.run>>}
                      \cup {<<"send_message(notification)", n, chat, service.run>> :
                              chat \in NoticeChats(notifications[n])}
  /\ service' = [service EXCEPT !.pc = "notice_mark"]
  /\ UNCHANGED <<now, started, instants, events, notifications, users, votings, votes,
                 procs, sequential, ops, dropped, pure, last_run, delivered>>

\* NotificationCRUD.mark_sent(session, notification).
mark_sent_mut(row, t) == row
mark_sent(row, t) == [row EXCEPT !.sent = TRUE, !.sent_at = t]
NoticesMark ==
  /\ service.pc = "notice_mark"
  /\ LET n == service.list[service.idx] IN
       notifications' = [notifications EXCEPT ![n] = mark_sent(notifications[n], now)]
  /\ service' = ServiceStep("notice_send")
  /\ UNCHANGED <<now, started, instants, events, calls, users, votings, votes,
                 procs, sequential, ops, dropped, pure, last_run, delivered>>

NextServices ==
  \/ Tick
  \/ EventCreate
  \/ EventDelete
  \/ NotificationCreate
  \/ EventsStart
  \/ EventsSend
  \/ EventsMark
  \/ NoticesStart
  \/ NoticesSend
  \/ NoticesMark

\* The jobs of services/ and the handlers that write the rows they read, with
\* the clock read a tick before and a tick after the end of the first day.
InitServices == Init /\ sequential = TRUE /\ instants = FineInstants
SpecServices == InitServices /\ [][NextServices]_vars

\* ---- properties --------------------------------------------------------------
\* C1: with the handlers run one at a time, the votes table never holds more
\* than one ballot of a member for a question, and a revote by a member who
\* holds a ballot leaves exactly that one row, carrying the option now chosen.
C1_OneBallotRevoteChanges ==
  [][/\ \A u \in Members, q \in QIds : UserVoteRows(votes', u, q) <= 1
     /\ \A p \in Handlers :
          (procs[p].pc = "recast_update" /\ procs'[p].pc = "done")
            => /\ UserVoteRows(votes', procs[p].user, procs[p].vid) = 1
               /\ votes'[<<procs[p].user, procs[p].vid, procs[p].arg>>] = 1]_vars

\* C2: with the handlers interleaving at their awaits, two casts of the same
\* member on the same question never leave more than one ballot of that member
\* for that question: one creates it, the other finds it.
C2_AtomicCheckThenCreate ==
  \A u \in Members, q \in QIds : UserVoteRows(votes, u, q) < 2

\* C3: run one at a time, a cast creates one ballot with the option chosen, and
\* a cast by a member who already holds a ballot for the ACTIVE question is
\* answered "already voted" and changes neither the votes nor the votings.
C3_SecondCastRejected ==
  [][\A p \in Handlers :
       /\ (procs[p].pc = "cast_create" /\ procs'[p] # procs[p])
            => /\ UserVoteRows(votes', procs[p].user, procs[p].vid) = 1
               /\ votes'[<<procs[p].user, procs[p].vid, procs[p].arg>>] = 1
       /\ (/\ procs[p].pc = "cast_existing" /\ procs'[p] # procs[p]
           /\ UserVoteRows(votes, procs[p].user, procs[p].vid) = 1)
            => /\ procs'[p].pc = "done" /\ procs'[p].res = "already_voted"
               /\ votes' = votes /\ votings' = votings]_vars

C3_Witness ==
  \E p \in Handlers :
    /\ procs[p].pc = "done" /\ procs[p].op = "cast"
    /\ procs[p].res = "already_voted"
    /\ votings[procs[p].vid].status = "ACTIVE"
    /\ count_votes(votes, procs[p].vid) = 1

\* C4: a voting whose status is COMPLETED or CANCELLED keeps that status in
\* every step of every handler and of the job.
C4_TerminalStatuses ==
  [][\A q \in QIds :
       votings[q].status \in {"COMPLETED", "CANCELLED"}
         => votings'[q].status = votings[q].status]_vars

\* C5: a publish (sentinel or custom duration) of a voting that is not a DRAFT
\* leaves its status, starts_at and ends_at as they are and sends the voting to
\* nobody.
C5_PublishOnlyFromDraft ==
  [][\A p \in Handlers :
       (/\ procs[p].op \in {"publish", "custom"}
        /\ procs[p].pc \notin {"idle", "done"}
        /\ procs[p].voting.status # "DRAFT")
         => /\ votings'[procs[p].vid].status = votings[procs[p].vid].status
            /\ votings'[procs[p].vid].starts_at = votings[procs[p].vid].starts_at
            /\ votings'[procs[p].vid].ends_at = votings[procs[p].vid].ends_at
            /\ procs'[p].sent = {}]_vars

\* C6: when a run of close_expired_votings is over, no voting is left ACTIVE
\* with an ends_at at or before the time the run started.
C6_SweepClosesExpired ==
  (procs[Job].pc = "done" /\ procs[Job].op = "sweep")
    => \A q \in QIds :
         ~(votings[q].status = "ACTIVE" /\ votings[q].ends_at <= procs[Job].t0)

\* C7: when the admin's batch close is over, no voting is left ACTIVE,
\* whatever its ends_at.
C7_BatchCloseClosesAllActive ==
  \A p \in Handlers :
    (procs[p].pc = "done" /\ procs[p].op = "end"
       /\ procs[p].res \in {"ok", "none_active"})
      => \A q \in QIds : votings[q].status # "ACTIVE"

\* C8: run one at a time, the step that takes a voting from ACTIVE to
\* COMPLETED stores as results the count per option of the votes held for it
\* and as total_votes their number, and the counts of the results add up to
\* total_votes.
C8_CloseStoresTally ==
  [][\A q \in QIds :
       (votings[q].status = "ACTIVE" /\ votings'[q].status = "COMPLETED")
         => /\ votings'[q].results = <<get_voting_results(votes, q)>>
            /\ votings'[q].total_votes = count_votes(votes, q)
            /\ SumOver(DOMAIN votings'[q].results[1], votings'[q].results[1])
                 = votings'[q].total_votes]_vars

C8_Witness ==
  \E q \in QIds :
    /\ votings[q].status = "COMPLETED"
    /\ votings[q].results = <<[o \in {0, 1} |-> 1]>>
    /\ votings[q].total_votes = 2

\* C9: run one at a time, a cast or a revote on a voting that is DRAFT,
\* COMPLETED or CANCELLED ends on its status check, answered "not active", with
\* the votes and the votings unchanged.
C9_OnlyActiveAcceptsBallots ==
  [][\A p \in Handlers :
       (/\ procs[p].pc = "idle"
        /\ procs'[p].op \in {"cast", "recast"}
        /\ votings[procs'[p].vid].status \in {"DRAFT", "COMPLETED", "CANCELLED"})
         => /\ procs'[p].pc = "done" /\ procs'[p].res = "not_active"
            /\ votes' = votes /\ votings' = votings]_vars

C9_Witness ==
  \E p \in Handlers :
    /\ procs[p].pc = "done" /\ procs[p].op = "cast"
    /\ procs[p].res = "not_active"
    /\ votings[procs[p].vid].status = "COMPLETED"
    /\ count_votes(votes, procs[p].vid) = votings[procs[p].vid].total_votes

\* C10: with the handlers and the job interleaving at their awaits, the votes
\* held for a COMPLETED voting count to exactly its stored results and
\* total_votes.
C10_BallotsFrozenAfterClose ==
  \A q \in QIds :
    votings[q].status = "COMPLETED"
      => /\ votings[q].results = <<get_voting_results(votes, q)>>
         /\ votings[q].total_votes = count_votes(votes, q)

\* C11: a publish (either path), reject, delete or batch close sent by a
\* caller who has no admin flag (or no user row) changes the status of no
\* voting.
C11_OnlyAdminsChangeStatus ==
  [][\A p \in Handlers :
       (/\ procs[p].op \in {"publish", "custom", "reject", "delete", "end"}
        /\ procs[p].pc \notin {"idle", "done"}
        /\ (procs[p].user = 0 \/ ~users[procs[p].user].is_admin))
         => \A q \in QIds : votings'[q].status = votings[q].status]_vars

\* C12: a cast or a revote by a caller who has no user row, or whose status is
\* not VERIFIED, creates and changes no row of the votes table.
C12_OnlyVerifiedCast ==
  [][\A p \in Handlers :
       (/\ procs[p].op \in {"cast", "recast"}
        /\ procs[p].pc \notin {"idle", "done"}
        /\ (procs[p].user = 0 \/ users[procs[p].user].status # "VERIFIED"))
         => votes' = votes]_vars

\* C13: a revote by a member who holds a ballot with option a, choosing
\* option b, takes one from the count of a and adds one to the count of b for
\* that voting (nothing when a = b) and leaves every other row of the votes
\* table, and so the number of ballots of the voting, as it was.
C13_RecastShiftsTally ==
  [][\A p \in Handlers :
       (procs[p].pc = "recast_update" /\ procs'[p].pc = "done")
         => LET u == procs[p].user
                q == procs[p].vid
                b == procs[p].arg
                a == CHOOSE o \in OptionInputs : votes[<<u, q, o>>] > 0
            IN votes' = IF a = b THEN votes
                        ELSE [votes EXCEPT ![<<u, q, a>>] = @ - 1,
                                           ![<<u, q, b>>] = @ + 1]]_vars

\* C14: the ballot and the cached total are written as one: whenever a
\* handler loads an ACTIVE voting, the total_votes it reads is the number of
\* members who hold a ballot for that voting in the votes table.
C14_TotalCountsCommittedBallots ==
  [][\A p \in Handlers :
       (/\ procs[p].pc = "idle"
        /\ procs'[p].pc \notin {"idle", "done"}
        /\ procs'[p].voting.status = "ACTIVE")
         => procs'[p].voting.total_votes
              = Cardinality({u \in Members :
                               UserVoteRows(votes, u, procs'[p].vid) > 0})]_vars

\* C15: a reject of a DRAFT voting sets it CANCELLED and writes to its
\* creator; a reject of a voting that is ACTIVE, COMPLETED or CANCELLED changes
\* no voting and writes to nobody.
C15_RejectOnlyFromDraft ==
  [][\A p \in Handlers :
       (procs[p].pc = "reject_update" /\ procs'[p].pc = "done")
         => LET q == procs[p].vid IN
              IF votings[q].status = "DRAFT"
              THEN /\ votings'[q].status = "CANCELLED"
                   /\ procs'[p].sent = {votings[q].creator}
              ELSE /\ votings' = votings
                   /\ procs'[p].sent = {}]_vars

\* C16: a delete of an ACTIVE voting sets it CANCELLED, leaves its results and
\* total_votes as they were and writes to the verified users; a delete of a
\* voting that is DRAFT, COMPLETED or CANCELLED changes no voting and writes to
\* nobody.
C16_DeleteOnlyFromActive ==
  [][\A p \in Handlers :
       (procs[p].pc = "delete_update" /\ procs'[p].pc = "done")
         => LET q == procs[p].vid IN
              IF votings[q].status = "ACTIVE"
              THEN /\ votings'[q] = [votings[q] EXCEPT !.status = "CANCELLED"]
                   /\ procs'[p].sent = Recipients
              ELSE /\ votings' = votings
                   /\ procs'[p].sent = {}]_vars

\* C17: whatever the export gives (a URL, None, an exception), the batch
\* close ends "ok" with every voting it closed COMPLETED with its results
\* stored and the results message sent to every verified user with
\* notifications enabled; and the sweep, for the voting it just closed, leaves
\* it COMPLETED with its results stored, sends the message to the same users
\* unless it is quiet hours, and goes on with its list.
C17_ExportFailureIsolated ==
  [][/\ \A p \in Handlers :
          (procs[p].pc = "end_notify" /\ procs'[p].pc = "done")
            => /\ procs'[p].res = "ok"
               /\ procs'[p].closed # {}
               /\ \A q \in procs'[p].closed :
                    /\ votings'[q].status = "COMPLETED"
                    /\ votings'[q].results # <<>>
               /\ procs'[p].sent = Recipients
     /\ (procs[Job].pc = "sweep_notify" /\ procs'[Job].pc # "sweep_notify")
          => LET q == procs[Job].list[procs[Job].idx].id IN
               /\ procs'[Job].pc \in {"sweep_check", "done"}
               /\ votings'[q].status = "COMPLETED"
               /\ votings'[q].results # <<>>
               /\ procs'[Job].sent
                    = procs[Job].sent
                        \cup (IF procs'[Job].quiet THEN {} ELSE Recipients)]_vars

C17_Witness ==
  \E p \in Handlers :
    /\ procs[p].pc = "done" /\ procs[p].op = "end" /\ procs[p].res = "ok"
    /\ procs[p].export = "raise"
    /\ procs[p].closed # {}
    /\ \A q \in procs[p].closed : votings[q].status = "COMPLETED"
    /\ procs[p].sent = Recipients /\ procs[p].sent # {}

\* C18: a run of close_expired_votings that starts while a voting is ACTIVE
\* with ends_at at or before now takes that voting up for closing, and no step
\* of a run rewrites a voting that is already COMPLETED or counts it among the
\* votings it closed (and sent results for).
C18_ScheduledCloseOnce ==
  [][/\ (procs[Job].pc = "idle" /\ procs'[Job].op = "sweep")
          => \A q \in QIds :
               (votings[q].status = "ACTIVE" /\ votings[q].ends_at <= now)
                 => \E i \in DOMAIN procs'[Job].list : procs'[Job].list[i].id = q
     /\ (procs'[Job] # procs[Job])
          => \A q \in QIds :
               votings[q].status = "COMPLETED"
                 => /\ votings'[q] = votings[q]
                    /\ q \notin procs'[Job].closed \ procs[Job].closed]_vars

C20_ExportLinkAdminsOnly ==
  \A p \in Procs : \A u \in procs[p].link : users[u].is_admin

\* C25: for start 22:00 and end 08:00, is_quiet_hours is true at 23:00, 00:00
\* and 07:59 and false at 08:01 and 21:59; for every start after end it is
\* true exactly for the times t with t >= start or t <= end, and for every
\* start before end exactly for start <= t <= end.
C25_QuietHoursWrap ==
  (pure.fn = "is_quiet_hours" /\ pure.called)
    => LET s == time(pure.start)
           e == time(pure.end)
           t == pure.t
       IN /\ s > e => (pure.out <=> (t >= s \/ t <= e))
          /\ s < e => (pure.out <=> (s <= t /\ t <= e))
          /\ (pure.start = <<22, 0>> /\ pure.end = <<8, 0>>)
               => /\ t \in {23 * 60, 0, 7 * 60 + 59} => pure.out = TRUE
                  /\ t \in {8 * 60 + 1, 21 * 60 + 59} => pure.out = FALSE

C25_Witness ==
  /\ pure.fn = "is_quiet_hours" /\ pure.called /\ pure.out = TRUE
  /\ pure.start = <<22, 0>> /\ pure.end = <<8, 0>> /\ pure.t = 7 * 60 + 59

\* C27: every ballot held in the votes table carries an option index of its
\* voting's options list (0 or 1), and so does every key of a stored result.
C27_OptionIndexInBounds ==
  /\ \A k \in BallotKeys : votes[k] > 0 => k[3] \in Options
  /\ \A q \in QIds :
       votings[q].results # <<>> => DOMAIN votings[q].results[1] \subseteq Options

\* C21: the batch close, when it has closed n >= 1 votings, sends every user
\* at most one results message, only to verified users with notifications
\* enabled, and each message it sends lists every one of the n votings it
\* closed, once.
C21_OneMessagePerRecipient ==
  [][\A p \in Handlers :
       (procs[p].pc = "end_notify" /\ procs'[p].pc = "done")
         => /\ procs[p].closed # {}
            /\ \A u \in DOMAIN users :
                 Cardinality({m \in procs'[p].mail : m.to = u}) <= 1
            /\ \A m \in procs'[p].mail :
                 /\ m.to \in Recipients
                 /\ Len(m.about) = Cardinality(procs[p].closed)
                 /\ {m.about[i].id : i \in DOMAIN m.about} = procs[p].closed]_vars

C21_Witness ==
  \E p \in Handlers :
    /\ procs[p].pc = "done" /\ procs[p].op = "end" /\ procs[p].res = "ok"
    /\ Cardinality(procs[p].closed) = 2
    /\ Cardinality(procs[p].mail) = 2
    /\ \A m \in procs[p].mail : Len(m.about) = 2

C23_ReminderOnlyIfEligible ==
  [][\A m \in procs'[Job].mail \ procs[Job].mail :
       m.kind = "reminder"
         => LET q == m.about[1].id IN
              /\ users[m.to].status = "VERIFIED"
              /\ users[m.to].notifications_enabled
              /\ UserVoteRows(votes, m.to, q) = 0
              /\ votings[q].status = "ACTIVE"
              /\ InReminderWindow(votings[q].ends_at, now)
              /\ ~QuietAt(now)]_vars

\* C24: no step of a publication, a batch close, a delete, the sweep or the
\* reminders run sends its notice to a user while the time is inside the
\* quiet hours.
C24_NoSendInQuietHours ==
  [][\A p \in Procs :
       (/\ procs[p].op \in {"publish", "custom", "end", "delete", "sweep", "remind"}
        /\ procs'[p].sent \ procs[p].sent # {})
         => ~QuietAt(now)]_vars

\* C26: a step that closes an ACTIVE voting for which no ballot is stored
\* leaves it COMPLETED with total 0 and a tally whose line for every option
\* is count 0, percentage 0.0; the batch close then ends normally, and every
\* results message about a voting with total 0 prints those lines.
ZeroLines == [i \in Options |-> [count |-> 0, percent |-> 0]]

C26_ZeroBallotClose ==
  [][/\ \A q \in QIds :
          (/\ votings[q].status = "ACTIVE" /\ votings'[q].status = "COMPLETED"
           /\ count_votes(votes, q) = 0)
            => /\ votings'[q].total_votes = 0
               /\ Len(votings'[q].results) = 1
               /\ TallyLines(votings'[q].results[1], votings'[q].total_votes)
                    = ZeroLines
     /\ \A p \in Procs :
          /\ (procs[p].pc = "end_notify" /\ procs'[p].pc = "done")
               => procs'[p].res = "ok"
          /\ \A m \in procs'[p].mail \ procs[p].mail :
               m.kind = "results"
                 => \A i \in DOMAIN m.about :
                      m.about[i].total = 0 => m.about[i].lines = ZeroLines]_vars

C26_Witness ==
  \E p \in Handlers : \E m \in procs[p].mail :
    /\ procs[p].pc = "done" /\ procs[p].op = "end" /\ procs[p].res = "ok"
    /\ m.kind = "results" /\ Len(m.about) = 1
    /\ m.about[1].total = 0 /\ m.about[1].lines = ZeroLines
    /\ votings[m.about[1].id].status = "COMPLETED"
    /\ votings[m.about[1].id].total_votes = 0
    /\ count_votes(votes, m.about[1].id) = 0

\* C28: a text whose length after trimming is outside 10..4000 ends the
\* propose step as invalid, with no row written and nobody notified, the
\* conversation left in the same step; a text inside the limits leads to one
\* step that writes exactly one new row, a DRAFT of the proposer, and leaves
\* every other row as it was, and the title made of the text has between 5
\* and 500 characters.
C28_ProposeValidated ==
  [][\A p \in Handlers :
       LET r == procs[p]
           n == procs'[p]
       IN /\ (r.pc = "idle" /\ n.op = "propose")
               => IF 10 <= n.text[2] /\ n.text[2] <= 4000
                  THEN n.pc = "propose_create" /\ votings' = votings
                  ELSE /\ n.pc = "done" /\ n.res = "invalid"
                       /\ n.sent = {} /\ votings' = votings
          /\ (r.pc = "propose_create" /\ n.pc = "done")
               => /\ n.res = "ok"
                  /\ 5 <= n.title /\ n.title <= 500
                  /\ \E q \in QIds :
                       /\ votings[q].status = "NONE"
                       /\ votings'[q] = NewVoting("DRAFT", r.user, now,
                                                   now + Hours(VOTE_DURATION_DAYS))
                       /\ \A x \in QIds \ {q} : votings'[x] = votings[x]]_vars

\* A proposal of 101 characters with a blank in front was taken: one DRAFT,
\* its title the first 100 characters and the dots.
C28_Witness ==
  \E p \in Handlers :
    /\ procs[p].pc = "done" /\ procs[p].op = "propose" /\ procs[p].res = "ok"
    /\ procs[p].text = <<1, 101, 0>> /\ procs[p].title = 103
    /\ Cardinality({q \in QIds : votings[q].status = "DRAFT"}) = 1

\* C29: no step takes a stored voting out of the table, and no step takes a
\* ballot out of it; the step of Reject and the step of Delete that writes
\* leaves the ballots as they were and changes nothing of the voting but its
\* status, which becomes CANCELLED.
C29_SoftDelete ==
  [][/\ \A q \in QIds : votings[q].status # "NONE" => votings'[q].status # "NONE"
     /\ \A k \in BallotKeys : votes'[k] >= votes[k]
     /\ \A p \in Handlers :
          (/\ procs[p].pc \in {"reject_update", "delete_update"}
           /\ procs'[p].pc = "done")
            => /\ votes' = votes
               /\ votings' = [votings EXCEPT ![procs[p].vid].status = "CANCELLED"]]_vars

\* A voting with a ballot was deleted: it is CANCELLED, and its ballot, its
\* total and its deadline are still there.
C29_Witness ==
  \E p \in Handlers :
    /\ procs[p].pc = "done" /\ procs[p].op = "delete" /\ procs[p].res = "ok"
    /\ votings[procs[p].vid].status = "CANCELLED"
    /\ votings[procs[p].vid].total_votes = 1
    /\ votings[procs[p].vid].ends_at > now
    /\ count_votes(votes, procs[p].vid) = 1

\* C30: a notice of the scheduler job (the reminder of a voting to a user, the
\* results of a voting closed by the sweep to a user) that a run of the job
\* left out because of the quiet hours is not sent by any later step.
C30_SuppressedNeverDelivered ==
  [][\A m \in procs'[Job].mail \ procs[Job].mail :
       <<m.kind, m.about[1].id, m.to>> \notin dropped]_vars

\* C37: is_quiet_hours is true at the start time and at the end time
\* themselves (22:00 and 08:00 for the window 22:00-08:00), and when the start
\* equals the end it is true at every time of the day.
C37_QuietBoundsInclusive ==
  (pure.fn = "is_quiet_hours" /\ pure.called)
    => /\ pure.t \in {time(pure.start), time(pure.end)} => pure.out = TRUE
       /\ pure.start = pure.end => pure.out = TRUE
       /\ (pure.start = <<22, 0>> /\ pure.end = <<8, 0>> /\ pure.t \in {22 * 60, 8 * 60})
            => pure.out = TRUE

C37_Witness ==
  /\ pure.fn = "is_quiet_hours" /\ pure.called /\ pure.out = TRUE
  /\ pure.start = <<8, 0>> /\ pure.end = <<8, 0>> /\ pure.t = 15 * 60

\* C31: a publish callback whose data names question q (and a day count d, if
\* it carries one) is carried out when q is stored, and its write makes q
\* ACTIVE from now until now + d (the 365-day sentinel without d) and leaves
\* every other question as it was; the write of the custom-duration publish
\* does the same with the question chosen and the 1..90 days typed.
C31_PublishChangesSelected ==
  [][\A p \in Handlers :
       LET r == procs[p]
           n == procs'[p]
       IN /\ (r.pc = "idle" /\ n.op = "publish" /\ votings[n.data[1]].status # "NONE")
               => n.pc = "publish_update" /\ n.vid = n.data[1]
          /\ (r.pc = "publish_update" /\ n.pc # "publish_update")
               => votings' = [votings EXCEPT ![r.data[1]] =
                     [@ EXCEPT !.status = "ACTIVE", !.starts_at = now,
                               !.ends_at = now + Hours(IF Len(r.data) = 2
                                                       THEN r.data[2]
                                                       ELSE SENTINEL_DAYS)]]
          /\ (r.pc = "custom_update" /\ n.pc # "custom_update")
               => /\ r.arg \in CUSTOM_MIN_DAYS..CUSTOM_MAX_DAYS
                  /\ votings' = [votings EXCEPT ![r.vid] =
                        [@ EXCEPT !.status = "ACTIVE", !.starts_at = now,
                                  !.ends_at = now + Hours(r.arg)]]]_vars

\* C32: for an ACTIVE voting on which no cast is under way and of which no
\* member holds more than one ballot (the casts were of different members),
\* total_votes is the number of ballots stored for it.
C32_NoLostTotal ==
  \A q \in QIds :
    (/\ votings[q].status = "ACTIVE"
     /\ \A u \in Members : UserVoteRows(votes, u, q) <= 1
     /\ \A p \in Handlers :
          ~(procs[p].op = "cast" /\ procs[p].vid = q
            /\ procs[p].pc \notin {"idle", "done"}))
      => votings[q].total_votes = count_votes(votes, q)

\* C33: a step that writes a ballot of a voting (creates one or changes one)
\* is taken only while the voting is ACTIVE and its deadline ends_at is still
\* ahead.
C33_NoBallotAfterDeadline ==
  [][\A k \in BallotKeys :
       votes'[k] # votes[k]
         => /\ votings[k[2]].status = "ACTIVE"
            /\ votings[k[2]].ends_at > now]_vars

\* C34: the reminder of a voting does not reach a user in two runs of the
\* hourly job: no user receives it at two times an hour or more apart.
C34_ReminderAtMostOnce ==
  \A q \in QIds : \A u \in Members :
    LET at == delivered[<<"reminder", q, u>>] IN
      \A i \in DOMAIN at : \A j \in DOMAIN at :
        i < j => at[j] - at[i] < Ticks(JOB_INTERVAL_HOURS)

\* The runs of send_event_reminders that called _send_event_reminder(e).
SweepsOf(e) == {c[4] : c \in {x \in calls : x[1] = "_send_event_reminder" /\ x[2] = e}}

\* C35: the reminder of an event is broadcast by at most one run of the hourly
\* job: no event is handled by two runs, and an event a run has handled has
\* reminder_sent set once the run has moved past it, whatever its date.
C35_OneSweepPerEvent ==
  \A e \in EIds :
    /\ Cardinality(SweepsOf(e)) <= 1
    /\ ( /\ SweepsOf(e) # {}
         /\ events[e].status = "ROW"
         /\ ~(service.pc = "event_mark" /\ service.list[service.idx] = e)
         => events[e].reminder_sent )

\* An event two days ahead was handled by the run a tick before the end of
\* the first day; the run an hour later, with the event still inside the
\* window of the query, has started and left it alone.
C35_Witness ==
  \E e \in EIds :
    /\ events[e].status = "ROW"
    /\ events[e].event_date = Hours(2)
    /\ events[e].reminder_sent
    /\ SweepsOf(e) # {}
    /\ now = Hours(1) + 1
    /\ last_run.events = now
    /\ \A r \in SweepsOf(e) : r < service.run
    /\ events[e].event_date <= now + Ticks(REMINDER_HOURS_BEFORE + 1)

\* A step that starts a run of process_pending_notifications.
NoticesStarts ==
  service.pc = "idle" /\ service'.run # service.run /\ last_run' = last_run

\* C36: the quiet hours defer the pending notifications and lose none. A run
\* of process_pending_notifications that starts inside the quiet hours makes
\* no call and changes no row; a run that starts outside them loads every
\* pending row, and when it ends each row it loaded is marked sent; a row is
\* marked sent only by a run that started outside the quiet hours and has
\* called _send_notification and send_message for it.
C36_DeferredNotLost ==
  [][/\ NoticesStarts /\ QuietAt(now)
        => notifications' = notifications /\ calls' = calls /\ service'.pc = "idle"
     /\ NoticesStarts /\ ~QuietAt(now)
        => {service'.list[i] : i \in DOMAIN service'.list} = get_pending(notifications, now)
     /\ service.fn = "notifications" /\ service'.pc = "idle"
        => \A i \in DOMAIN service.list : notifications'[service.list[i]].sent
     /\ \A n \in NIds :
          ~notifications[n].sent /\ notifications'[n].sent
          => /\ service.fn = "notifications" /\ ~QuietAt(service.t0)
             /\ <<"_send_notification", n, 0, service.run>> \in calls
             /\ \A chat \in NoticeChats(notifications[n]) :
                  <<"send_message(notification)", n, chat, service.run>> \in calls]_vars

\* A notification a run inside the quiet hours left pending has been sent and
\* marked sent by a later run, outside the quiet hours.
C36_Witness ==
  \E n \in NIds :
    /\ <<"notification", n, 0>> \in dropped
    /\ notifications[n].sent
    /\ ~QuietAt(notifications[n].sent_at)
    /\ \E c \in calls : c[1] = "send_message(notification)" /\ c[2] = n

\* C38: when two closes overlap, each voting is moved to COMPLETED once, with
\* one results snapshot: a close (by the end button or by the job) writes
\* COMPLETED and the results only over a row that is not COMPLETED already.
C38_ClosedOnce ==
  [][\A p \in Procs :
       /\ procs[p].pc \in {"end_update", "sweep_update"}
       /\ procs'[p].pc # procs[p].pc
       => votings[procs[p].list[procs[p].idx].id].status # "COMPLETED"]_vars
====
